---- MODULE Spec2Model ----
(***************************************************************************)
(* Model of ContamPythonParallel/run_simulations.py: a coordinator process *)
(* that checks the Contam executable, prepares the 'output' folder, maps   *)
(* run_contam over SIMULATION_FILES on a ProcessPoolExecutor with three    *)
(* workers, and logs one summary line per result.                          *)
(*                                                                         *)
(* The file system and the child processes are the environment: which      *)
(* paths exist is fixed in Init, and the way a launch or a write ends is   *)
(* chosen when the call is made.                                           *)
(***************************************************************************)
EXTENDS Integers, Sequences, FiniteSets, TLC

\* ---------------------------------------------------------------- bounds
\* Longest job list explored with every environment (SIMULATION_FILES has 3
\* entries in the source).
MaxJobs == 3
\* Longest job list explored with a stand-in executable (SpecPool).
MaxPoolJobs == 5
\* Longest job list explored on both kinds of platform (SpecLog).
MaxLogJobs == 2
\* Longest job list explored under fair scheduling (SpecLive, SpecHang).
MaxLiveJobs == 4
\* Longest run of extensions in a simulation file name (SpecNames).
MaxExts == 2
\* Exit codes a child process may return: 0 .. MaxExitCode.
MaxExitCode == 1

\* ------------------------------------------------------------- constants
\* ProcessPoolExecutor(max_workers=3)
max_workers == 3

WorkersPlusOne == 1..(max_workers + 1)
WorkersOne == 1..1
WorkersTwo == 1..(max_workers - 1)
Workers == 1..max_workers

ExitCodes == 0..MaxExitCode
\* elapsed_time = time.time() - start_time, abstracted to one value that
\* differs from the -1 used where no time was measured.
Durations == {1}

VARIABLES
    n,            \* number of jobs, len(SIMULATION_FILES)
    SIMULATION_FILES,  \* the path of each job's simulation file
    exeState,     \* CONTAM_EXE on disk: "missing", "noexec", "ok", or
                  \* "mock" (a stand-in executable that always returns 0)
    outputAt,     \* what is at the path 'output': "absent", "dir" or "file"
    inputExists,  \* jobs whose simulation file exists
    startMethod,  \* how the platform starts pool workers: "fork" or "spawn"
    hung,         \* jobs whose child process, once started, never exits
    mainpc,       \* position of the coordinator process
    exitCode,     \* exit status of the coordinator, -1 while it runs
    log,          \* lines the coordinator has logged to execution.log
    jobLog,       \* lines logged by run_contam, per job
    slot,         \* job a pool worker is executing, 0 when idle
    jpc,          \* position of each job inside the pool / run_contam
    entered,      \* number of times run_contam was entered for a job
    proc,         \* child process of a job: <<"none">>, <<"fault">>,
                  \* <<"running">> or <<"exited", returncode>>
    spawned,      \* number of child processes launched for a job
    elapsed,      \* elapsed_time measured by run_contam, -1 before
    future,       \* result delivered by the pool for each job, <<>> if none
    results,      \* list(executor.map(...)) as collected so far
    artifacts,    \* files written under 'output': set of [path, text, writes]
    outOfOrder,   \* observer: some job finished before an earlier job had
    booted        \* pool workers whose process has initialised the module

vars == <<n, SIMULATION_FILES, exeState, outputAt, inputExists, mainpc, exitCode, log, jobLog,
          slot, jpc, entered, proc, spawned, elapsed, future, results,
          artifacts, outOfOrder, startMethod, booted, hung>>

envVars == <<n, SIMULATION_FILES, exeState, outputAt, inputExists, startMethod, hung>>
jobVars == <<jobLog, slot, jpc, entered, proc, spawned, elapsed, future,
             artifacts, outOfOrder, booted>>

Jobs == 1..n

\* ------------------------------------------------------------ path names
\* A file name is a stem followed by extensions: sim1.prj has stem 1 and
\* extensions <<".prj">>, sim1.prj.log has <<".prj", ".log">>.
\* SIMULATION_FILES[i] = os.path.join("simulations", "sim<i>.prj")
SimFile(i) == [dir |-> "simulations", stem |-> i, exts |-> <<".prj">>]

\* os.path.basename(sim_file)
Basename(f) == [stem |-> f.stem, exts |-> f.exts]

\* str.replace(".prj", ".log"): every occurrence is replaced.
ReplacePrj(exts) ==
    [k \in DOMAIN exts |-> IF exts[k] = ".prj" THEN ".log" ELSE exts[k]]

OutputLogFileStemOnly(name) ==
    [dir |-> "output", stem |-> name.stem, exts |-> <<".log">>]
\* os.path.join("output", simulation_name.replace(".prj", ".log"))
OutputLogFile(name) ==
    [dir |-> "output", stem |-> name.stem, exts |-> ReplacePrj(name.exts)]

SimulationName(i) == Basename(SIMULATION_FILES[i])

\* --------------------------------------------------------------- results
\* f"{simulation_name}: File not found"
FileNotFoundResult(name) ==
    [name |-> name, status |-> "FileNotFound", code |-> -1, dur |-> -1]

\* f"{simulation_name}: Exception occurred"
LaunchExceptionResult(name) ==
    [name |-> name, status |-> "LaunchException", code |-> -1, dur |-> -1]

CompletedOnlyIfZero(name, rc, d) ==
    IF rc = 0
    THEN [name |-> name, status |-> "Completed", code |-> rc, dur |-> d]
    ELSE [name |-> name, status |-> "LaunchException", code |-> -1, dur |-> -1]
\* f"{simulation_name}: Completed in {elapsed_time:.2f} seconds, Return Code: {rc}"
CompletedResult(name, rc, d) ==
    [name |-> name, status |-> "Completed", code |-> rc, dur |-> d]

CompletedOrErrorAfterWrite(name, rc, d, written) ==
    IF written
    THEN [name |-> name, status |-> "Completed", code |-> rc, dur |-> d]
    ELSE [name |-> name, status |-> "LaunchException", code |-> -1, dur |-> -1]
\* The value run_contam returns after the artifact write, whether the write
\* succeeded or its exception was caught.
ResultAfterWrite(name, rc, d, written) == CompletedResult(name, rc, d)

\* ----------------------------------------------------------------- lines
Line(level, msg, name) == [level |-> level, msg |-> msg, name |-> name]
NoName == [stem |-> 0, exts |-> <<>>]
SummaryLine(res) == [level |-> "INFO", msg |-> "result", name |-> res.name,
                     status |-> res.status, code |-> res.code, dur |-> res.dur]

\* ------------------------------------------------------------ file tests
ExistsAlways(state) == TRUE
\* os.path.exists(CONTAM_EXE)
ExeExists(state) == state # "missing"

InputAlwaysExists(j, present) == TRUE
\* os.path.exists(sim_file)
InputFileExists(j, present) == j \in present

\* The file at CONTAM_EXE can be started by subprocess.run.
ExeUsable(state) == state \in {"ok", "mock"}

\* The return codes a child running CONTAM_EXE may end with.
ReturnCodes(state) == IF state = "mock" THEN {0} ELSE ExitCodes

\* os.path.exists("output")
OutputExists(state) == state # "absent"

\* ------------------------------------------------------------------ Init
InitEnv ==
    /\ n \in 1..MaxJobs
    /\ SIMULATION_FILES = [i \in 1..n |-> SimFile(i)]
    /\ exeState \in {"missing", "noexec", "ok"}
    /\ outputAt \in {"absent", "dir", "file"}
    /\ inputExists \in SUBSET (1..n)
    /\ startMethod = "fork"
    /\ hung = {}

\* The environment of a pool test: a stand-in executable, 'output' a
\* directory and every simulation file present; job lists may exceed the
\* pool size.
InitPoolEnv ==
    /\ n \in 1..MaxPoolJobs
    /\ SIMULATION_FILES = [i \in 1..n |-> SimFile(i)]
    /\ exeState = "mock"
    /\ outputAt = "dir"
    /\ inputExists = 1..n
    /\ startMethod = "fork"
    /\ hung = {}

\* A usable environment on either kind of platform: workers are forked
\* (they inherit the configured logging) or spawned (each one imports the
\* module again).
InitLogEnv ==
    /\ n \in 1..MaxLogJobs
    /\ SIMULATION_FILES = [i \in 1..n |-> SimFile(i)]
    /\ exeState = "ok"
    /\ outputAt = "dir"
    /\ inputExists = 1..n
    /\ startMethod \in {"fork", "spawn"}
    /\ hung = {}

\* Environments for the progress properties: a stand-in executable with job
\* lists longer than the pool; or the real executable, with any return code,
\* short job lists and the first input file present or missing.
InitLiveEnv ==
    /\ \/ /\ n \in 1..MaxLiveJobs
          /\ exeState = "mock"
          /\ inputExists = 1..n
       \/ /\ n \in 1..MaxLogJobs
          /\ exeState = "ok"
          /\ inputExists \in {1..n, 2..n}
    /\ SIMULATION_FILES = [i \in 1..n |-> SimFile(i)]
    /\ outputAt = "dir"
    /\ startMethod = "fork"
    /\ hung = {}

\* Environments in which one child never exits, that of the first or of the
\* last job of the list: a stand-in executable, every simulation file
\* present, job lists longer than the pool.
InitHangEnv ==
    /\ n \in 1..MaxLiveJobs
    /\ SIMULATION_FILES = [i \in 1..n |-> SimFile(i)]
    /\ exeState = "mock"
    /\ outputAt = "dir"
    /\ inputExists = 1..n
    /\ startMethod = "fork"
    /\ hung \in {{1}, {n}}

\* Sequences of extensions of length 1 .. MaxExts.
ExtRuns == UNION {[1..k -> {".prj", ".log"}] : k \in 1..MaxExts}

\* Candidate simulation files: two stems, every run of extensions.
NamedFiles ==
    {[dir |-> "simulations", stem |-> st, exts |-> e] : st \in 1..2, e \in ExtRuns}

\* Every list of two candidate simulation files, all present, run with the
\* stand-in executable.
InitNamesEnv ==
    /\ n = 2
    /\ SIMULATION_FILES \in [1..n -> NamedFiles]
    /\ exeState = "mock"
    /\ outputAt = "dir"
    /\ inputExists = 1..n
    /\ startMethod = "fork"
    /\ hung = {}

InitProgram ==
    /\ mainpc = "import"
    /\ exitCode = -1
    /\ log = <<Line("INFO", "previous run", NoName)>>
    /\ jobLog = [j \in 1..n |-> <<>>]
    /\ slot = [w \in Workers |-> 0]
    /\ jpc = [j \in 1..n |-> "unsubmitted"]
    /\ entered = [j \in 1..n |-> 0]
    /\ proc = [j \in 1..n |-> <<"none">>]
    /\ spawned = [j \in 1..n |-> 0]
    /\ elapsed = [j \in 1..n |-> -1]
    /\ future = [j \in 1..n |-> <<>>]
    /\ results = <<>>
    /\ artifacts = {}
    /\ outOfOrder = FALSE
    /\ booted = [w \in Workers |-> FALSE]

\* --------------------------------------------------------- the coordinator
\* FileHandler(log_file, mode='w'): what is left of the lines a process had
\* put in execution.log when the file is opened for writing.
Truncated(lines) == <<>>

\* logging.basicConfig(... FileHandler(log_file, mode='w') ...): the file is
\* opened for writing and truncated.
ConfigureLogging ==
    /\ mainpc = "import"
    /\ log' = Truncated(log)
    /\ mainpc' = "checkexe"
    /\ UNCHANGED <<envVars, jobVars, exitCode, results>>

\* if not os.path.exists(CONTAM_EXE): logging.error(...); sys.exit(1)
CheckExe ==
    /\ mainpc = "checkexe"
    /\ IF ExeExists(exeState)
       THEN /\ mainpc' = "main"
            /\ UNCHANGED <<log, exitCode>>
       ELSE /\ log' = Append(log, Line("ERROR", "Contam executable not found", NoName))
            /\ exitCode' = 1
            /\ mainpc' = "exited"
    /\ UNCHANGED <<envVars, jobVars, results>>

\* if not os.path.exists("output"): os.makedirs("output"); logging.debug(...)
\* os.makedirs may raise; nothing catches it, so the interpreter prints a
\* traceback to stderr and exits with status 1.
MakeOutputDir ==
    /\ mainpc = "main"
    /\ IF OutputExists(outputAt)
       THEN /\ mainpc' = "startpool"
            /\ UNCHANGED <<outputAt, log, exitCode>>
       ELSE \E created \in BOOLEAN :
              IF created
              THEN /\ outputAt' = "dir"
                   /\ log' = Append(log, Line("DEBUG", "Created 'output' directory.", NoName))
                   /\ mainpc' = "startpool"
                   /\ UNCHANGED exitCode
              ELSE /\ exitCode' = 1
                   /\ mainpc' = "exited"
                   /\ UNCHANGED <<outputAt, log>>
    /\ UNCHANGED <<n, SIMULATION_FILES, exeState, inputExists, startMethod, hung,
                   jobVars, results>>

\* logging.info("Starting all simulations in parallel."); entering the with
\* block and calling executor.map submits one work item per simulation file.
StartPool ==
    /\ mainpc = "startpool"
    /\ log' = Append(log, Line("INFO", "Starting all simulations in parallel.", NoName))
    /\ jpc' = [j \in Jobs |-> "queued"]
    /\ booted' = [w \in Workers |-> startMethod = "fork"]
    /\ mainpc' = "collect"
    /\ UNCHANGED <<envVars, exitCode, results, jobLog, slot, entered, proc,
                   spawned, elapsed, future, artifacts, outOfOrder>>

AnyFinished(res, fut) ==
    {i \in DOMAIN fut : fut[i] # <<>> /\ \A k \in 1..Len(res) : res[k] # fut[i][1]}
\* The iterator returned by executor.map yields the futures' results in the
\* order the calls were submitted: the next index to wait for.
NextToCollect(res, fut) ==
    {i \in DOMAIN fut : i = Len(res) + 1 /\ fut[i] # <<>>}

\* results = list(executor.map(run_contam, SIMULATION_FILES)), one element
Collect ==
    /\ mainpc = "collect"
    /\ \E i \in NextToCollect(results, future) :
          results' = Append(results, future[i][1])
    /\ UNCHANGED <<envVars, jobVars, mainpc, exitCode, log>>

ResultsPartial(res, k) == Len(res) >= 1
\* list(...) returns when the iterator of executor.map is exhausted: one
\* result for each of the k simulation files.
ResultsComplete(res, k) == Len(res) = k

\* All results collected: the with block exits (shutdown waits for the
\* workers) and logging.info("All simulations completed. Summary:") runs.
LogSummaryHeader ==
    /\ mainpc = "collect"
    /\ ResultsComplete(results, n)
    /\ \A w \in Workers : slot[w] = 0
    /\ log' = Append(log, Line("INFO", "All simulations completed. Summary:", NoName))
    /\ mainpc' = "summary"
    /\ UNCHANGED <<envVars, jobVars, exitCode, results>>

SummaryLines(lg) == SelectSeq(lg, LAMBDA l : l.msg = "result")

\* for res in results: logging.info(res)
LogSummaryLine ==
    /\ mainpc = "summary"
    /\ Len(SummaryLines(log)) < Len(results)
    /\ log' = Append(log, SummaryLine(results[Len(SummaryLines(log)) + 1]))
    /\ UNCHANGED <<envVars, jobVars, mainpc, exitCode, results>>

ExitStatusStrict(res) ==
    IF \E k \in 1..Len(res) : res[k].status # "Completed" \/ res[k].code # 0
    THEN 1 ELSE 0
\* main() returns and the interpreter exits normally.
ExitStatus(res) == 0

Exit ==
    /\ mainpc = "summary"
    /\ Len(SummaryLines(log)) = Len(results)
    /\ exitCode' = ExitStatus(results)
    /\ mainpc' = "exited"
    /\ UNCHANGED <<envVars, jobVars, log, results>>

\* ------------------------------------------------------------ the workers
Active(j) == jpc[j] \in {"check", "launch", "child", "write"}

QueuedOrRunning(pcs) == {j \in DOMAIN pcs : pcs[j] \notin {"unsubmitted", "done"}}
\* The call queue is FIFO: a free worker takes the oldest queued work item.
QueueHead(pcs) ==
    {j \in DOMAIN pcs : pcs[j] = "queued" /\ \A k \in 1..(j - 1) : pcs[k] # "queued"}

\* A worker takes a work item and enters run_contam:
\* logging.info(f"Starting simulation for {simulation_name}")
\* A forked worker starts with the coordinator's logging handlers.  A spawned
\* worker first imports the module, which runs its top level again (lines
\* 10-26): logging.basicConfig opens execution.log with mode='w' once more.
\* (A spawned worker also writes at a file position of its own; the model
\* keeps only the truncation.)
Begin(w) ==
    /\ slot[w] = 0
    /\ \E j \in QueueHead(jpc) :
          /\ slot' = [slot EXCEPT ![w] = j]
          /\ jpc' = [jpc EXCEPT ![j] = "check"]
          /\ entered' = [entered EXCEPT ![j] = @ + 1]
          /\ IF booted[w]
             THEN /\ jobLog' = [jobLog EXCEPT ![j] =
                          Append(@, Line("INFO", "Starting simulation", SimulationName(j)))]
                  /\ UNCHANGED <<log, booted>>
             ELSE /\ booted' = [booted EXCEPT ![w] = TRUE]
                  /\ log' = Truncated(log)
                  /\ jobLog' = [k \in Jobs |->
                        IF k = j
                        THEN Append(Truncated(jobLog[k]),
                                    Line("INFO", "Starting simulation", SimulationName(j)))
                        ELSE Truncated(jobLog[k])]
    /\ UNCHANGED <<envVars, mainpc, exitCode, results, proc, spawned,
                   elapsed, future, artifacts, outOfOrder>>

ReturnKeepsSlot(w, j, res) ==
    /\ future' = [future EXCEPT ![j] = <<res>>]
    /\ jpc' = [jpc EXCEPT ![j] = "done"]
    /\ slot' = slot
    /\ outOfOrder' = (outOfOrder \/ \E k \in 1..(j - 1) : jpc[k] # "done")
    /\ UNCHANGED booted
\* run_contam returns res: the worker hands it to the future and is free.
Return(w, j, res) ==
    /\ future' = [future EXCEPT ![j] = <<res>>]
    /\ jpc' = [jpc EXCEPT ![j] = "done"]
    /\ slot' = [slot EXCEPT ![w] = 0]
    /\ outOfOrder' = (outOfOrder \/ \E k \in 1..(j - 1) : jpc[k] # "done")
    /\ UNCHANGED booted

\* if not os.path.exists(sim_file): log the error, return "File not found";
\* otherwise build the command and log it.
CheckInput(w) ==
    /\ slot[w] # 0
    /\ jpc[slot[w]] = "check"
    /\ LET j == slot[w] IN
         IF InputFileExists(j, inputExists)
         THEN /\ jobLog' = [jobLog EXCEPT ![j] =
                              Append(@, Line("DEBUG", "Executing command", SimulationName(j)))]
              /\ jpc' = [jpc EXCEPT ![j] = "launch"]
              /\ UNCHANGED <<future, slot, outOfOrder, booted>>
         ELSE /\ jobLog' = [jobLog EXCEPT ![j] =
                              Append(@, Line("ERROR", "Simulation file not found", SimulationName(j)))]
              /\ Return(w, j, FileNotFoundResult(SimulationName(j)))
    /\ UNCHANGED <<envVars, mainpc, exitCode, log, results, entered, proc,
                   spawned, elapsed, artifacts>>

\* subprocess.run(command, ...) raises: logging.exception(...), return
\* "Exception occurred".  A file that cannot be executed always raises; a
\* usable one may still fail to start (an operating-system fault).
LaunchFails(w) ==
    /\ slot[w] # 0
    /\ jpc[slot[w]] = "launch"
    /\ LET j == slot[w] IN
         /\ proc' = [proc EXCEPT ![j] = <<"fault">>]
         /\ jobLog' = [jobLog EXCEPT ![j] =
                         Append(@, Line("ERROR", "Exception occurred while running simulation", SimulationName(j)))]
         /\ Return(w, j, LaunchExceptionResult(SimulationName(j)))
    /\ UNCHANGED <<envVars, mainpc, exitCode, log, results, entered, spawned,
                   elapsed, artifacts>>

\* subprocess.run(command, ...) starts the child; the worker blocks in it.
LaunchStarts(w) ==
    /\ slot[w] # 0
    /\ jpc[slot[w]] = "launch"
    /\ ExeUsable(exeState)
    /\ LET j == slot[w] IN
         /\ proc' = [proc EXCEPT ![j] = <<"running">>]
         /\ spawned' = [spawned EXCEPT ![j] = @ + 1]
         /\ jpc' = [jpc EXCEPT ![j] = "child"]
    /\ UNCHANGED <<envVars, mainpc, exitCode, log, results, entered, jobLog,
                   slot, elapsed, future, artifacts, outOfOrder, booted>>

\* subprocess.run(command, ...) is called without a timeout: it returns only
\* if the child exits.
Exits(j, stuck) == j \notin stuck

\* The child exits with code rc; subprocess.run returns, elapsed_time is
\* taken and logging.info(f"Finished simulation ...") runs.
ChildExits(w) ==
    /\ slot[w] # 0
    /\ jpc[slot[w]] = "child"
    /\ Exits(slot[w], hung)
    /\ LET j == slot[w] IN
         \E rc \in ReturnCodes(exeState), d \in Durations :
            /\ proc' = [proc EXCEPT ![j] = <<"exited", rc>>]
            /\ elapsed' = [elapsed EXCEPT ![j] = d]
            /\ jobLog' = [jobLog EXCEPT ![j] =
                            Append(@, Line("INFO", "Finished simulation", SimulationName(j)))]
            /\ jpc' = [jpc EXCEPT ![j] = "write"]
    /\ UNCHANGED <<envVars, mainpc, exitCode, log, results, entered, spawned,
                   slot, future, artifacts, outOfOrder, booted>>

\* log_details as written to the artifact file
LogDetails(j, rc, d) == [job |-> j, elapsed |-> d, returncode |-> rc]

\* Number of times the file at path has been written.
TimesWritten(files, path) ==
    IF \E a \in files : a.path = path
    THEN (CHOOSE a \in files : a.path = path).writes
    ELSE 0

WriteNowhere(files, path, text) == files
\* with open(output_log_file, "w") as f: f.write(log_details)
\* The file is created or replaced; writes counts the times it was written.
WriteFile(files, path, text) ==
    {a \in files : a.path # path}
       \cup {[path |-> path, text |-> text, writes |-> TimesWritten(files, path) + 1]}

\* The artifact write and the return.  open() raises when 'output' is not a
\* directory and may raise for other reasons; the exception is caught and
\* logged, and run_contam returns the Completed line either way.
WriteLog(w) ==
    /\ slot[w] # 0
    /\ jpc[slot[w]] = "write"
    /\ LET j == slot[w]
           name == SimulationName(j)
           rc == proc[j][2]
       IN \E written \in BOOLEAN :
            /\ written => outputAt = "dir"
            /\ IF written
               THEN /\ artifacts' = WriteFile(artifacts, OutputLogFile(name),
                                              LogDetails(j, rc, elapsed[j]))
                    /\ jobLog' = [jobLog EXCEPT ![j] =
                                    Append(@, Line("DEBUG", "Log details written", name))]
               ELSE /\ jobLog' = [jobLog EXCEPT ![j] =
                                    Append(@, Line("ERROR", "Error writing log file", name))]
                    /\ UNCHANGED artifacts
            /\ Return(w, j, ResultAfterWrite(name, rc, elapsed[j], written))
    /\ UNCHANGED <<envVars, mainpc, exitCode, log, results, entered, proc,
                   spawned, elapsed>>

Worker(w) ==
    \/ Begin(w)
    \/ CheckInput(w)
    \/ LaunchFails(w)
    \/ LaunchStarts(w)
    \/ ChildExits(w)
    \/ WriteLog(w)

Next ==
    \/ ConfigureLogging
    \/ CheckExe
    \/ MakeOutputDir
    \/ StartPool
    \/ Collect
    \/ LogSummaryHeader
    \/ LogSummaryLine
    \/ Exit
    \/ \E w \in Workers : Worker(w)

Init == InitEnv /\ InitProgram
InitPool == InitPoolEnv /\ InitProgram

Spec == Init /\ [][Next]_vars
SpecPool == InitPool /\ [][Next]_vars

\* The coordinator's steps.
Coordinator ==
    \/ ConfigureLogging
    \/ CheckExe
    \/ MakeOutputDir
    \/ StartPool
    \/ Collect
    \/ LogSummaryHeader
    \/ LogSummaryLine
    \/ Exit

\* Fair scheduling: the coordinator and every pool worker keep running, and a
\* launched child exits (ChildExits is one of the worker's steps).
Fairness ==
    /\ WF_vars(Coordinator)
    /\ \A w \in Workers : WF_vars(Worker(w))

InitLive == InitLiveEnv /\ InitProgram
SpecLive == InitLive /\ [][Next]_vars /\ Fairness

\* The same scheduling, with children that may never exit.
InitHang == InitHangEnv /\ InitProgram
SpecHang == InitHang /\ [][Next]_vars /\ Fairness

InitNames == InitNamesEnv /\ InitProgram
SpecNames == InitNames /\ [][Next]_vars

InitLog == InitLogEnv /\ InitProgram
SpecLog == InitLog /\ [][Next]_vars

\* ------------------------------------------------------------ properties
Done(j) == jpc[j] = "done"
ActiveJobs == {j \in Jobs : Active(j)}
RunFinished == mainpc = "exited" /\ exitCode = 0
ArtifactPaths == {a.path : a \in artifacts}
WriteFailed(j) ==
    /\ Done(j)
    /\ proc[j][1] = "exited"
    /\ OutputLogFile(SimulationName(j)) \notin ArtifactPaths

\* C1: the collected results are, position by position, the results of the
\* jobs in job-list order, whatever order the jobs finished in; a finished
\* run has exactly n of them, and the summary lines repeat them in that order.
C1_ResultsInJobOrder ==
    /\ Len(results) <= n
    /\ \A i \in 1..Len(results) :
          /\ future[i] = <<results[i]>>
          /\ results[i].name = SimulationName(i)
    /\ mainpc = "summary" \/ RunFinished => Len(results) = n
    /\ Len(SummaryLines(log)) <= Len(results)
    /\ \A k \in 1..Len(SummaryLines(log)) :
          SummaryLines(log)[k] = SummaryLine(results[k])
    /\ RunFinished => Len(SummaryLines(log)) = n

\* A finished run of at least two jobs in which some job finished before an
\* earlier job of the list.
C1_Witness ==
    /\ RunFinished
    /\ outOfOrder
    /\ n >= 2
    /\ Len(results) = n

\* C2: run_contam is entered at most once per job, a job is held by at most
\* one worker (exactly one while it executes), a delivered result is never
\* replaced, and once the pool is done every job was entered exactly once and
\* has its result.
C2_StateOk ==
    /\ \A j \in Jobs :
          /\ entered[j] <= 1
          /\ Cardinality({w \in Workers : slot[w] = j}) = (IF Active(j) THEN 1 ELSE 0)
          /\ future[j] # <<>> <=> Done(j)
          /\ Done(j) \/ Active(j) => entered[j] = 1
          /\ jpc[j] \in {"unsubmitted", "queued"} => entered[j] = 0
    /\ mainpc = "summary" \/ RunFinished =>
          \A j \in Jobs : entered[j] = 1 /\ Len(future[j]) = 1

C2_ResultKept ==
    \A j \in Jobs : future[j] # <<>> => future'[j] = future[j] /\ entered'[j] = entered[j]

C2_EachJobOnce == [](C2_StateOk) /\ [][C2_ResultKept]_vars

C2_Witness ==
    /\ RunFinished
    /\ n >= 2
    /\ \A j \in Jobs : entered[j] = 1 /\ future[j] # <<>>

\* C3: at most max_workers jobs are inside run_contam at the same time, and
\* the executing jobs and the busy workers correspond one to one.
C3_BoundedConcurrency ==
    /\ Cardinality(ActiveJobs) <= max_workers
    /\ \A j \in ActiveJobs : Cardinality({w \in Workers : slot[w] = j}) = 1
    /\ \A w \in Workers : slot[w] # 0 => slot[w] \in ActiveJobs

\* The admission limit binds: every worker is busy and a job is waiting.
C3_Witness ==
    /\ Cardinality(ActiveJobs) = max_workers
    /\ \E j \in Jobs : jpc[j] = "queued"

\* C4: the coordinator exits with status 1 only before any job was entered;
\* once the pool has started, whatever the jobs' outcomes, the run ends with
\* status 0, a result for every job and a summary line for every job.
C4_FailuresDoNotAbort ==
    /\ exitCode \in {-1, 0, 1}
    /\ exitCode = 1 => \A j \in Jobs : entered[j] = 0
    /\ (\E j \in Jobs : entered[j] > 0) /\ mainpc = "exited" =>
          /\ exitCode = 0
          /\ \A j \in Jobs : Len(future[j]) = 1
          /\ Len(results) = n
          /\ Len(SummaryLines(log)) = n

\* A finished run holding a missing input, a launch fault and a non-zero
\* exit code.
C4_Witness ==
    /\ RunFinished
    /\ \E j \in Jobs : future[j] # <<>> /\ future[j][1].status = "FileNotFound"
    /\ \E j \in Jobs : future[j] # <<>> /\ future[j][1].status = "LaunchException"
    /\ \E j \in Jobs : future[j] # <<>> /\ future[j][1].status = "Completed"
                                       /\ future[j][1].code # 0

\* C5: with the executable missing, the coordinator never gets past the
\* check: no job is submitted, entered or launched, no result exists, and
\* the process ends with status 1.
C5_MissingExeAborts ==
    exeState = "missing" =>
       /\ mainpc \in {"import", "checkexe", "exited"}
       /\ mainpc = "exited" => exitCode = 1
       /\ \A j \in Jobs :
             /\ jpc[j] = "unsubmitted"
             /\ entered[j] = 0
             /\ spawned[j] = 0
             /\ future[j] = <<>>
       /\ results = <<>>

C5_Witness ==
    /\ exeState = "missing"
    /\ mainpc = "exited"
    /\ exitCode = 1

\* C6 (as claimed): with an executable that exists but cannot be executed
\* (and 'output' a directory), no job is entered, none reaches the launch, no
\* result is produced, and the process does not end with status 0.
C6_NotExecutableIsFatal ==
    exeState = "noexec" /\ outputAt = "dir" =>
       /\ \A j \in Jobs : entered[j] = 0 /\ jpc[j] # "launch" /\ future[j] = <<>>
       /\ mainpc = "exited" => exitCode # 0

\* C7: a job whose simulation file does not exist never has a child
\* process, and its result, once it has one, is File not found.
C7_MissingInputNoLaunch ==
    \A j \in Jobs :
       j \notin inputExists =>
          /\ spawned[j] = 0
          /\ proc[j] = <<"none">>
          /\ jpc[j] \notin {"launch", "child", "write"}
          /\ Done(j) => future[j] = <<FileNotFoundResult(SimulationName(j))>>

\* A job with a missing input has its result while the executable is usable.
C7_Witness ==
    /\ ExeUsable(exeState)
    /\ \E j \in Jobs : j \notin inputExists /\ Done(j) /\ entered[j] = 1

\* C8: a finished job whose child exited with code c is Completed with
\* exactly c; a finished job is Exception occurred exactly when
\* subprocess.run raised.
C8_StatusByLaunchEnd ==
    \A j \in Jobs :
       Done(j) =>
          /\ proc[j][1] = "exited" =>
                /\ future[j][1].status = "Completed"
                /\ future[j][1].code = proc[j][2]
          /\ future[j][1].status = "LaunchException" <=> proc[j] = <<"fault">>
          /\ future[j][1].status = "Completed" => proc[j][1] = "exited"

\* One finished job whose child returned a non-zero code and one whose launch
\* raised.
C8_Witness ==
    /\ \E j \in Jobs : Done(j) /\ proc[j][1] = "exited" /\ proc[j][2] # 0
    /\ \E j \in Jobs : Done(j) /\ proc[j] = <<"fault">>

\* C9 (as claimed): with a usable executable, when 'output' is a
\* non-directory, or is absent and the run has ended without creating it, no
\* job was entered and the process ended with status 1.
C9_UnusableOutputIsFatal ==
    exeState = "ok" /\ (outputAt = "file" \/ (outputAt = "absent" /\ mainpc = "exited")) =>
       /\ \A j \in Jobs : entered[j] = 0
       /\ mainpc = "exited" => exitCode = 1

\* C10: a finished job whose child exited returns the Completed line with the
\* child's code and the measured elapsed time whether or not the artifact was
\* written; a failed write leaves an error line as the job's last line; and
\* the step that ends a job after its write changes no other job.
C10_StateOk ==
    \A j \in Jobs :
       Done(j) /\ proc[j][1] = "exited" =>
          /\ future[j] = <<CompletedResult(SimulationName(j), proc[j][2], elapsed[j])>>
          /\ elapsed[j] \in Durations
          /\ WriteFailed(j) =>
                jobLog[j][Len(jobLog[j])] =
                   Line("ERROR", "Error writing log file", SimulationName(j))

C10_OthersUntouched ==
    \A j \in Jobs :
       jpc[j] = "write" /\ jpc'[j] = "done" =>
          \A k \in Jobs \ {j} :
             /\ jpc'[k] = jpc[k]
             /\ future'[k] = future[k]
             /\ jobLog'[k] = jobLog[k]
             /\ proc'[k] = proc[k]

C10_WriteFailureKeepsResult == [](C10_StateOk) /\ [][C10_OthersUntouched]_vars

\* Two finished jobs with the same code and elapsed time, one whose artifact
\* write failed and one whose write succeeded.
C10_Witness ==
    \E j, k \in Jobs :
       /\ WriteFailed(j)
       /\ Done(k) /\ proc[k][1] = "exited" /\ ~WriteFailed(k)
       /\ proc[j][2] = proc[k][2]
       /\ elapsed[j] = elapsed[k]
       /\ future[j][1].status = future[k][1].status
       /\ future[j][1].code = future[k][1].code
       /\ future[j][1].dur = future[k][1].dur

\* ---------------------------------------------------------------- C11
ArtifactsOf(j) == {a \in artifacts : a.path = OutputLogFile(SimulationName(j))}
ChildExited(j) == proc[j][1] = "exited"
\* No run_contam call has logged "Error writing log file".
AllWritesSucceeded ==
    \A j \in Jobs : \A k \in 1..Len(jobLog[j]) : jobLog[j][k].msg # "Error writing log file"

\* C11 (as claimed): in a finished run whose writes all succeeded, every job
\* of the list has exactly one artifact file, written once.
C11_EveryJobHasArtifact ==
    RunFinished /\ AllWritesSucceeded =>
       \A j \in Jobs :
          /\ Cardinality(ArtifactsOf(j)) = 1
          /\ \A a \in ArtifactsOf(j) : a.writes = 1

\* C11 (amended): every artifact file belongs to a finished job whose child
\* exited, holds that job's details and was written once; in a finished run
\* whose writes all succeeded a job has exactly one artifact if its child
\* exited and none if it ended File not found or Exception occurred; and an
\* artifact, once written, is never written again.
C11_StateOk ==
    /\ \A a \in artifacts :
          /\ a.writes = 1
          /\ \E j \in Jobs :
                /\ a.path = OutputLogFile(SimulationName(j))
                /\ Done(j) /\ ChildExited(j)
                /\ a.text = LogDetails(j, proc[j][2], elapsed[j])
    /\ RunFinished /\ AllWritesSucceeded =>
          \A j \in Jobs :
             Cardinality(ArtifactsOf(j)) = (IF ChildExited(j) THEN 1 ELSE 0)

C11_NotRewritten == \A a \in artifacts : a \in artifacts'

C11_ArtifactPerCompletedJob == [](C11_StateOk) /\ [][C11_NotRewritten]_vars

\* A finished run without write errors holding a job with its artifact, a
\* job that ended File not found and a job that ended Exception occurred.
C11_Witness ==
    /\ RunFinished /\ AllWritesSucceeded
    /\ \E j \in Jobs : ChildExited(j) /\ Cardinality(ArtifactsOf(j)) = 1
    /\ \E j \in Jobs : future[j][1].status = "FileNotFound" /\ ArtifactsOf(j) = {}
    /\ \E j \in Jobs : future[j][1].status = "LaunchException" /\ ArtifactsOf(j) = {}

\* ---------------------------------------------------------------- C12
CountMsg(lines, msg) == Cardinality({k \in 1..Len(lines) : lines[k].msg = msg})

\* C12 (as claimed): every line a process has logged is in execution.log
\* exactly once: the coordinator's start line once the pool has started, a
\* job's "Starting simulation" line once run_contam was entered for it, and
\* its "Executing command" line once its input file was found.
C12_EveryLineOnce ==
    /\ mainpc \in {"collect", "summary"} \/ RunFinished =>
          CountMsg(log, "Starting all simulations in parallel.") = 1
    /\ \A j \in Jobs :
          /\ Active(j) \/ Done(j) =>
                CountMsg(jobLog[j], "Starting simulation") = 1
          /\ jpc[j] \in {"launch", "child", "write"}
                \/ (Done(j) /\ future[j][1].status # "FileNotFound") =>
                CountMsg(jobLog[j], "Executing command") = 1

\* ---------------------------------------------------------------- C16
IsPrefix(a, b) == Len(a) <= Len(b) /\ \A k \in 1..Len(a) : a[k] = b[k]

C16_LinesKept ==
    mainpc # "import" =>
       /\ IsPrefix(log, log')
       /\ \A j \in Jobs : IsPrefix(jobLog[j], jobLog'[j])

\* C16 (as claimed): after the truncation at process start no step removes
\* a line from execution.log, the start-up of a pool worker included.
C16_AppendOnly == [][C16_LinesKept]_vars

\* ---------------------------------------------------------------- C13
AllResultsIn == \A j \in Jobs : Len(future[j]) = 1
SummaryLogged ==
    /\ CountMsg(log, "All simulations completed. Summary:") = 1
    /\ Len(SummaryLines(log)) = n

\* C13: under fair scheduling, with every launched child exiting, a run whose
\* pool has started ends: every job gets its result, the summary is logged
\* and the process exits with status 0.
C13_RunFinishes ==
    (mainpc = "collect") ~> (RunFinished /\ AllResultsIn /\ SummaryLogged)

\* A finished run of more jobs than workers.
C13_Witness ==
    /\ RunFinished /\ AllResultsIn /\ SummaryLogged
    /\ n > max_workers

\* ---------------------------------------------------------------- C14
NamesDistinct ==
    \A i, j \in Jobs : i # j => SimulationName(i) # SimulationName(j)
NoLogInNames ==
    \A i \in Jobs : \A k \in DOMAIN SimulationName(i).exts :
       SimulationName(i).exts[k] # ".log"
\* Jobs for which run_contam has computed the artifact path and written it.
Wrote(j) ==
    /\ Done(j)
    /\ CountMsg(jobLog[j], "Log details written") = 1
NoSharedArtifact ==
    /\ \A i, j \in Jobs :
          i # j /\ Wrote(i) /\ Wrote(j) =>
             OutputLogFile(SimulationName(i)) # OutputLogFile(SimulationName(j))
    /\ \A a \in artifacts : a.writes = 1

\* C14 (as claimed): when the job names are pairwise distinct, the artifact
\* paths of the jobs that wrote are pairwise distinct and no artifact file is
\* written twice.
C14_DistinctNamesDistinctPaths == NamesDistinct => NoSharedArtifact

\* C14 (amended): the same when, in addition, no job name contains ".log".
C14_DistinctPathsWithoutLog == NamesDistinct /\ NoLogInNames => NoSharedArtifact

\* Two jobs with distinct names free of ".log", one of them with two
\* extensions, have both written their artifact.
C14_Witness ==
    /\ NamesDistinct /\ NoLogInNames
    /\ \A j \in Jobs : Wrote(j)
    /\ \E j \in Jobs : Len(SimulationName(j).exts) = 2
    /\ Cardinality(artifacts) = 2

\* ---------------------------------------------------------------- C15
\* C15 (as claimed): a process that ended with a non-zero status (a fatal
\* error) has an ERROR line as the last line of execution.log.
C15_FatalErrorsLogged ==
    mainpc = "exited" /\ exitCode # 0 =>
       /\ Len(log) > 0
       /\ log[Len(log)].level = "ERROR"

\* ---------------------------------------------------------------- C17
\* Some job's child process was started and never exits.
HungChild == \E j \in Jobs \cap hung : jpc[j] = "child"

\* While a child that never exits is running, the coordinator waits for the
\* results and no line of the summary is logged.
C17_NoSummary ==
    HungChild =>
       /\ mainpc = "collect"
       /\ exitCode = -1
       /\ ~ \E i \in 1..Len(log) :
              log[i].msg \in {"All simulations completed. Summary:", "result"}

\* A job whose child never exits stays in subprocess.run, on the same
\* worker, without a result.
C17_StaysBlocked ==
    \A j \in Jobs \cap hung :
       jpc[j] = "child" =>
          /\ jpc'[j] = "child"
          /\ future'[j] = <<>>
          /\ \A w \in Workers : slot[w] = j => slot'[w] = j

\* C17: a child process that never exits blocks only the worker slot that
\* runs it: that job never gets a result and the run never reaches the
\* summary, but with max_workers >= 2 every other job of the list is
\* eventually started and completed by the remaining workers.
C17_HungChildBlocksOneSlot ==
    /\ [](C17_NoSummary)
    /\ [][C17_StaysBlocked]_vars
    /\ (max_workers >= 2 /\ Cardinality(hung) < max_workers) =>
          ((mainpc = "collect") ~>
              (\A j \in Jobs : Done(j) \/ (j \in hung /\ jpc[j] = "child")))

\* A list longer than the pool, one child that never exits, and every other
\* job done.
C17_Witness ==
    /\ n > max_workers
    /\ HungChild
    /\ \A j \in Jobs : Done(j) \/ (j \in hung /\ jpc[j] = "child")
    /\ \E j \in Jobs : Done(j) /\ entered[j] = 1 /\ Len(future[j]) = 1

\* ---------------------------------------------------------------- C18
\* Jobs whose child process is running.
RunningChildren == {j \in Jobs : jpc[j] = "child" /\ proc[j] = <<"running">>}

\* C18: execution is parallel, not serial: while fewer than max_workers jobs
\* are executing and a job is queued, a worker can take it without waiting
\* for any running child, so that max_workers (3) children run at once.
C18_ParallelNotSerial ==
    (Cardinality(ActiveJobs) < max_workers /\ \E j \in Jobs : jpc[j] = "queued")
       => ENABLED (\E w \in Workers : Begin(w))

\* Exactly max_workers children are running at the same time.
C18_Witness ==
    /\ n >= max_workers
    /\ Cardinality(RunningChildren) = max_workers
    /\ \A j \in RunningChildren : \E w \in Workers : slot[w] = j

\* ---------------------------------------------------------------- C19
\* Lines of the final summary found in execution.log: the header and the
\* result lines.
SummaryPart(lg) ==
    SelectSeq(lg, LAMBDA l : l.msg \in {"All simulations completed. Summary:", "result"})

\* C19: the final summary is emitted only after every job has finished: while
\* any job is pending or running the log holds neither the 'All simulations
\* completed' line nor a result line; and the summary of a finished run
\* holds exactly one line per job, the job's own result, in list order.
C19_SummaryAfterAllJobs ==
    /\ SummaryPart(log) # <<>> =>
          /\ \A j \in Jobs : Done(j)
          /\ \A w \in Workers : slot[w] = 0
    /\ RunFinished =>
          /\ CountMsg(log, "All simulations completed. Summary:") = 1
          /\ Len(SummaryLines(log)) = n
          /\ \A j \in Jobs : SummaryLines(log)[j] = SummaryLine(future[j][1])

\* A finished run of several jobs whose summary is in the log.
C19_Witness ==
    /\ RunFinished
    /\ n >= 2
    /\ Len(SummaryPart(log)) = n + 1
    /\ outOfOrder

====
